---- MODULE Spec2Model ----
(***************************************************************************)
(* Model of cmsl1t/analyzers/HW_Emu_jetMet_rates.py: the Analyzer that     *)
(* fills hardware and emulated rate histograms event by event, gated by a  *)
(* single-entry luminosity cache, and that derives, in make_plots, the     *)
(* emulator bin matching each configured hardware threshold.               *)
(*                                                                         *)
(* Histograms follow ROOT bin numbering: bin 0 is the underflow bin, bins  *)
(* 1..NBins are the value bins, bin NBins+1 is the overflow bin.           *)
(* Python floats are modelled as exact reduced fractions [n, d].           *)
(***************************************************************************)
EXTENDS Integers, Sequences, FiniteSets, Bags, TLC

----------------------------------------------------------------------------
(* Bounds of the model *)

\* value bins of a rates histogram (the source builds 200 bins over 0..200)
NBins == 3
\* run numbers are 1..MaxRun
MaxRun == 2
\* lumi-section numbers are 1..MaxLumi
MaxLumi == 2
\* events fed to fill_histograms
MaxEvents == 3
\* direct calls of _passesLumiFilter in GateSpec
MaxCalls == 4

(* Program constants *)

\* the collision rate of make_plots (40000000.)
RefRate == 40000000

----------------------------------------------------------------------------
(* Floats as exact fractions *)

RECURSIVE GCD(_, _)
GCD(a, b) == IF b = 0 THEN a ELSE GCD(b, a % b)

Abs(x) == IF x < 0 THEN 0 - x ELSE x

\* the float n / d, d # 0, in lowest terms with a positive denominator
Frac(n, d) ==
    LET g == GCD(Abs(n), Abs(d))
        s == IF d < 0 THEN 0 - 1 ELSE 1
    IN  [n |-> s * (n \div g), d |-> s * (d \div g)]

FromInt(k) == [n |-> k, d |-> 1]

IsZero(x) == x.n = 0

\* x * y, cancelling before multiplying
FMul(x, y) ==
    LET g1 == GCD(Abs(x.n), y.d)
        g2 == GCD(Abs(y.n), x.d)
    IN  Frac((x.n \div g1) * (y.n \div g2), (x.d \div g2) * (y.d \div g1))

\* x / y, y # 0
FDiv(x, y) == FMul(x, Frac(y.d, y.n))

\* abs(x - y)
FAbsDiff(x, y) ==
    LET g == GCD(x.d, y.d)
    IN  Frac(Abs(x.n * (y.d \div g) - y.n * (x.d \div g)), (x.d \div g) * y.d)

\* x < y, for x, y >= 0: whole parts first, then the remainders
FLess(x, y) ==
    LET qx == x.n \div x.d
        qy == y.n \div y.d
    IN  \/ qx < qy
        \/ qx = qy /\ (x.n % x.d) * y.d < (y.n % y.d) * x.d

----------------------------------------------------------------------------
(* Channels *)

types ==
    [sum_types |-> <<"HT", "METBE", "METHF", "HT_Emu", "METBE_Emu", "METHF_Emu">>,
     jet_types |-> <<"JetET_BE", "JetET_HF", "JetET_BE_Emu", "JetET_HF_Emu">>]

\* self._sumTypes + self._jetTypes
AllTypes == types.sum_types \o types.jet_types

Range(s) == {s[i] : i \in DOMAIN s}

Names == Range(AllTypes)

\* "Emu" in name
HasEmu(name) ==
    name \in {"HT_Emu", "METBE_Emu", "METHF_Emu", "JetET_BE_Emu", "JetET_HF_Emu"}

\* 'BE' in name
HasBE(name) == name \in {"METBE", "METBE_Emu", "JetET_BE", "JetET_BE_Emu"}

\* 'HF' in name
HasHF(name) == name \in {"METHF", "METHF_Emu", "JetET_HF", "JetET_HF_Emu"}

\* name + "_Emu"
PlusEmu(name) ==
    CASE name = "HT" -> "HT_Emu"
      [] name = "METBE" -> "METBE_Emu"
      [] name = "METHF" -> "METHF_Emu"
      [] name = "JetET_BE" -> "JetET_BE_Emu"
      [] name = "JetET_HF" -> "JetET_HF_Emu"

\* name.replace('_Emu', '')
ReplaceEmu(name) ==
    CASE name = "HT_Emu" -> "HT"
      [] name = "METBE_Emu" -> "METBE"
      [] name = "METHF_Emu" -> "METHF"
      [] name = "JetET_BE_Emu" -> "JetET_BE"
      [] name = "JetET_HF_Emu" -> "JetET_HF"
      [] OTHER -> name

HwNames == {n \in Names : ~HasEmu(n)}

----------------------------------------------------------------------------
(* Configuration and events *)

Runs == 1..MaxRun
Lumis == 1..MaxLumi
Pairs == Runs \X Lumis

\* self.params['lumiJson']: empty (no filter), or a file listing good pairs
LumiJsons ==
    {[given |-> FALSE, good |-> {}]} \cup
    {[given |-> TRUE, good |-> g] :
        g \in {{}, Pairs, {p \in Pairs : p[2] = 1}, {p \in Pairs : p[1] = 1},
               {p \in Pairs : p[1] = p[2]}}}

\* the files that differ on the lumi sections of run 1
EventLumiJsons ==
    {j \in LumiJsons : ~j.given \/ j.good \in {{}, Pairs, {p \in Pairs : p[2] = 1}}}

\* one list of threshold bins: every value bin
AllBins == [i \in 1..NBins |-> i]

\* self.params['thresholds']: a dictionary from channel name to a list of bins
ThresholdConfigs ==
    {[n \in HwNames |-> AllBins],
     [n \in HwNames \ {"HT"} |-> AllBins],
     [n \in (HwNames \ {"JetET_BE"}) \cup {"METHF_Emu"} |-> <<NBins, 1>>]}

\* self.params['pu_bins']
puBins == <<0, 10, 20>>

Jet(et, eta) == [et |-> et, eta |-> eta]

\* what an event carries besides run and lumi; eta in units of 1.0
Payloads ==
    {[hasNVertex |-> FALSE, nVertex |-> 0,
      l1Sums_Htt |-> 0, l1Sums_Met |-> 0, l1Sums_MetHF |-> 0,
      l1EmuSums_Htt |-> 0, l1EmuSums_Met |-> 0, l1EmuSums_MetHF |-> 0,
      l1Jets |-> <<>>, l1EmuJets |-> <<>>],
     [hasNVertex |-> TRUE, nVertex |-> 5,
      l1Sums_Htt |-> 0, l1Sums_Met |-> 1, l1Sums_MetHF |-> 2,
      l1EmuSums_Htt |-> 1, l1EmuSums_Met |-> 1, l1EmuSums_MetHF |-> 0,
      l1Jets |-> <<Jet(2, 0), Jet(1, 4)>>, l1EmuJets |-> <<Jet(1, 0 - 1)>>],
     [hasNVertex |-> TRUE, nVertex |-> 15,
      l1Sums_Htt |-> 2, l1Sums_Met |-> 2, l1Sums_MetHF |-> 5,
      l1EmuSums_Htt |-> 2, l1EmuSums_Met |-> 1, l1EmuSums_MetHF |-> 5,
      l1Jets |-> <<Jet(5, 3), Jet(1, 2)>>,
      l1EmuJets |-> <<Jet(2, 0 - 4), Jet(1, 4), Jet(2, 2)>>],
     [hasNVertex |-> TRUE, nVertex |-> 50,
      l1Sums_Htt |-> 1, l1Sums_Met |-> 0, l1Sums_MetHF |-> 1,
      l1EmuSums_Htt |-> 0, l1EmuSums_Met |-> 2, l1EmuSums_MetHF |-> 2,
      l1Jets |-> <<Jet(1, 0 - 5)>>, l1EmuJets |-> <<Jet(5, 1), Jet(2, 0 - 2)>>]}

\* the events fed to fill_histograms: the lumi sections of run 1
Events ==
    {[run |-> p[1], lumi |-> p[2], data |-> d] :
        p \in {q \in Pairs : q[1] = 1}, d \in Payloads}

----------------------------------------------------------------------------
(* State *)

VARIABLES
    pc,              \* "constructed", "filling", "gate", "done" or "raised"
    thresholds,      \* self.thresholds
    _lumiFilter,     \* self._lumiFilter: [given, good]; given = FALSE is None
    _lastRunAndLumi, \* self._lastRunAndLumi
    _processLumi,    \* self._processLumi
    rates,           \* the <name>_rates plotters: name -> pileup slice -> bin -> count
    rate_vs_pileup,  \* the <name>_rate_vs_pileup plotters: name -> number of fills
    hists,           \* the attributes make_plots sets: name -> bin -> rate
    calib,           \* make_plots' locals per hardware channel and threshold
    output,          \* the lines printed
    fed,             \* history: the bag of events given to fill_histograms
    admitted,        \* history: how many of them the gate let through
    calls,           \* history: the calls of _passesLumiFilter, in order
    fullCache        \* history: the verdict of every pair looked up so far

vars == <<pc, thresholds, _lumiFilter, _lastRunAndLumi, _processLumi, rates,
          rate_vs_pileup, hists, calib, output, fed, admitted, calls,
          fullCache>>

----------------------------------------------------------------------------
(* The luminosity gate *)

\* self._lumiFilter(run, lumi): whether the file lists the pair as good
LuminosityFilter(filter, run, lumi) == <<run, lumi>> \in filter.good

\* the gate with only the lumi section compared against the cached pair
_passesLumiFilter_LumiOnly(run, lumi) ==
    IF ~_lumiFilter.given
    THEN [ret |-> TRUE, last |-> _lastRunAndLumi, process |-> _processLumi,
          lookup |-> FALSE]
    ELSE IF lumi = _lastRunAndLumi[2]
    THEN [ret |-> _processLumi, last |-> _lastRunAndLumi,
          process |-> _processLumi, lookup |-> FALSE]
    ELSE LET v == LuminosityFilter(_lumiFilter, run, lumi)
         IN  [ret |-> v, last |-> <<run, lumi>>, process |-> v, lookup |-> TRUE]

\* the gate returning the looked-up verdict without storing it
_passesLumiFilter_NotStored(run, lumi) ==
    IF ~_lumiFilter.given
    THEN [ret |-> TRUE, last |-> _lastRunAndLumi, process |-> _processLumi,
          lookup |-> FALSE]
    ELSE IF <<run, lumi>> = _lastRunAndLumi
    THEN [ret |-> _processLumi, last |-> _lastRunAndLumi,
          process |-> _processLumi, lookup |-> FALSE]
    ELSE LET v == LuminosityFilter(_lumiFilter, run, lumi)
         IN  [ret |-> v, last |-> <<run, lumi>>, process |-> _processLumi,
              lookup |-> TRUE]

\* Analyzer._passesLumiFilter: the value returned, the cache it leaves, and
\* whether the external lookup was made
_passesLumiFilter(run, lumi) ==
    IF ~_lumiFilter.given
    THEN [ret |-> TRUE, last |-> _lastRunAndLumi, process |-> _processLumi,
          lookup |-> FALSE]
    ELSE IF <<run, lumi>> = _lastRunAndLumi
    THEN [ret |-> _processLumi, last |-> _lastRunAndLumi,
          process |-> _processLumi, lookup |-> FALSE]
    ELSE LET v == LuminosityFilter(_lumiFilter, run, lumi)
         IN  [ret |-> v, last |-> <<run, lumi>>, process |-> v, lookup |-> TRUE]

----------------------------------------------------------------------------
(* Histograms *)

\* bn.Base.everything: the slice over all pileups
everything == 0

\* the slices of a rates plot: everything, and one per pileup bin
Slices == 0..(Len(puBins) - 1)

Bins == 0..(NBins + 1)

EmptyHist == [b \in Bins |-> 0]

\* RatesPlot.build(name, puBins, 200, 0, 200, ...)
RatesPlot_build == [s \in Slices |-> EmptyHist]

\* the slices a pileup value is counted in
SlicesOf(pileup) ==
    {everything} \cup
    {i \in 1..(Len(puBins) - 1) : puBins[i] <= pileup /\ pileup < puBins[i + 1]}

\* the bin a value falls in: unit-width bins from 0, clamped to the edge
\* bins, so that the underflow and overflow bins are never filled
ValueBin(value) ==
    IF value < 0 THEN 1 ELSE IF value >= NBins THEN NBins ELSE value + 1

\* RatesPlot.fill(pileup, value)
RatesPlot_fill(plot, pileup, value) ==
    [s \in Slices |->
        IF s \in SlicesOf(pileup)
        THEN [plot[s] EXCEPT ![ValueBin(value)] = @ + 1]
        ELSE plot[s]]

\* RateVsPileupPlot.fill(pileup, value), kept as the number of fills
RateVsPileupPlot_fill(plot) == [plot EXCEPT !.fills = @ + 1]

\* dict.get(name): None when the key is missing
DictGet(dict, name) ==
    IF name \in DOMAIN dict
    THEN [isNone |-> FALSE, val |-> dict[name]]
    ELSE [isNone |-> TRUE, val |-> <<>>]

\* hist.get_bin_content(i), ROOT's GetBinContent
get_bin_content(h, i) == h[IF i < 0 THEN 0 ELSE IF i > NBins + 1 THEN NBins + 1 ELSE i]

\* hist.nbins()
nbins(h) == NBins

\* hist.Scale(c)
Scale(h, c) == [b \in Bins |-> FMul(h[b], c)]

RECURSIVE SumFrom(_, _)
SumFrom(hist, i) == IF i > NBins THEN 0 ELSE hist[i] + SumFrom(hist, i + 1)

\* cumulative_hist(hist): curve[i] = hist[i] + curve[i+1] over the value bins
cumulative_hist(hist) ==
    [b \in Bins |-> IF b \in 1..NBins THEN FromInt(SumFrom(hist, b)) ELSE FromInt(hist[b])]

\* normalise_to_collision_rate(hist): the first value bin scaled to RefRate
normalise_to_collision_rate(hist) ==
    IF IsZero(hist[1]) THEN hist ELSE Scale(hist, FDiv(FromInt(RefRate), hist[1]))

----------------------------------------------------------------------------
(* Analyzer.__init__ and prepare_for_events *)

Construct(json, thr) ==
    /\ thresholds = thr
    /\ _lumiFilter = json
    /\ _lastRunAndLumi = <<0 - 1, 0 - 1>>
    /\ _processLumi = TRUE
    /\ rates = <<>>
    /\ rate_vs_pileup = <<>>
    /\ hists = <<>>
    /\ calib = <<>>
    /\ output = [errors |-> 0, lines |-> <<>>]
    /\ fed = EmptyBag
    /\ admitted = 0
    /\ calls = <<>>
    /\ fullCache = <<>>

Init ==
    /\ pc = "constructed"
    /\ \E json \in EventLumiJsons, thr \in ThresholdConfigs : Construct(json, thr)

\* the thresholds prepare_for_events hands to a channel's rate_vs_pileup plot
trig_thresholds(name) ==
    LET t == DictGet(thresholds, name)
    IN  IF t.isNone /\ HasEmu(name)
        THEN DictGet(thresholds, ReplaceEmu(name))
        ELSE t

\* the channels prepare_for_events prints the error for
MissingThresholds == {n \in Names : DictGet(thresholds, n).isNone /\ ~HasEmu(n)}

PrepareForEvents ==
    /\ pc = "constructed"
    /\ pc' = "filling"
    /\ rates' = [n \in Names |-> RatesPlot_build]
    /\ rate_vs_pileup' = [n \in Names |-> [trig |-> trig_thresholds(n), fills |-> 0]]
    /\ output' = [output EXCEPT !.errors = @ + Cardinality(MissingThresholds)]
    /\ UNCHANGED <<thresholds, _lumiFilter, _lastRunAndLumi, _processLumi, hists,
                   calib, fed, admitted, calls, fullCache>>

----------------------------------------------------------------------------
(* fill_histograms *)

\* extractSums(event): channel name -> the sum's et
extractSums(event) ==
    [HT |-> event.data.l1Sums_Htt,
     METBE |-> event.data.l1Sums_Met,
     METHF |-> event.data.l1Sums_MetHF,
     HT_Emu |-> event.data.l1EmuSums_Htt,
     METBE_Emu |-> event.data.l1EmuSums_Met,
     METHF_Emu |-> event.data.l1EmuSums_MetHF]

\* max(ets) if there is a jet, else 0
MaxJetEt(jets) ==
    IF jets = {} THEN 0
    ELSE CHOOSE m \in {j.et : j \in jets} : \A j \in jets : j.et <= m

\* the value fill_histograms fills a jet channel with
JetValue(name, event) ==
    LET l1Jets == Range(event.data.l1Jets)
        l1EmuJets == Range(event.data.l1EmuJets)
        maxL1JetEt == MaxJetEt(l1Jets)
        maxL1EmuJetEt == MaxJetEt(l1EmuJets)
        maxL1BEJetEt == MaxJetEt({j \in l1Jets : Abs(j.eta) < 3})
        maxL1EmuBEJetEt == MaxJetEt({j \in l1EmuJets : Abs(j.eta) < 3})
        maxL1HFJetEt == MaxJetEt({j \in l1Jets : Abs(j.eta) > 3})
        maxL1EmuHFJetEt == MaxJetEt({j \in l1EmuJets : Abs(j.eta) > 3})
    IN  IF HasEmu(name)
        THEN IF HasBE(name) THEN maxL1EmuBEJetEt
             ELSE IF HasHF(name) THEN maxL1EmuHFJetEt
             ELSE maxL1EmuJetEt
        ELSE IF HasBE(name) THEN maxL1BEJetEt
             ELSE IF HasHF(name) THEN maxL1HFJetEt
             ELSE maxL1JetEt

\* event.nVertex, or 1 when the event has none
Pileup(event) == IF event.data.hasNVertex THEN event.data.nVertex ELSE 1

\* the fills with the emulated jet channels left out
FilledChannels_NoEmuJets == Names \ {"JetET_BE_Emu", "JetET_HF_Emu"}

\* the channels the two loops of fill_histograms fill
FilledChannels == Range(types.sum_types) \cup Range(types.jet_types)

\* the value a channel is filled with
ChannelValue(name, event) ==
    IF name \in Range(types.sum_types)
    THEN extractSums(event)[name]
    ELSE JetValue(name, event)

FillHistograms(event) ==
    LET gate == _passesLumiFilter(event.run, event.lumi)
    IN  /\ pc = "filling"
        /\ BagCardinality(fed) < MaxEvents
        /\ _lastRunAndLumi' = gate.last
        /\ _processLumi' = gate.process
        /\ fed' = fed (+) SetToBag({event})
        /\ IF ~gate.ret
           THEN UNCHANGED <<rates, rate_vs_pileup, admitted>>
           ELSE /\ admitted' = admitted + 1
                /\ rates' =
                     [n \in Names |->
                        IF n \in FilledChannels
                        THEN RatesPlot_fill(rates[n], Pileup(event),
                                            ChannelValue(n, event))
                        ELSE rates[n]]
                /\ rate_vs_pileup' =
                     [n \in Names |->
                        IF n \in FilledChannels
                        THEN RateVsPileupPlot_fill(rate_vs_pileup[n])
                        ELSE rate_vs_pileup[n]]
        /\ UNCHANGED <<pc, thresholds, _lumiFilter, hists, calib, output, calls,
                       fullCache>>

----------------------------------------------------------------------------
(* make_plots *)

\* the curve with the cumulative step left out
RateCurve_NoCumulative(name) ==
    normalise_to_collision_rate([b \in Bins |-> FromInt(rates[name][everything][b])])

\* the attribute make_plots first sets for a rates plot: the everything
\* slice, made cumulative, then normalised
RateCurve(name) ==
    normalise_to_collision_rate(cumulative_hist(rates[name][everything]))

\* the rescaling with a zero of the constant missing
Rescale_MissingZero(h) ==
    LET bin1 == get_bin_content(h, 1)
    IN  IF ~IsZero(bin1) THEN Scale(h, FDiv(FromInt(RefRate \div 10), bin1)) ELSE h

\* the rescaling to twice the collision rate
Rescale_Doubled(h) ==
    LET bin1 == get_bin_content(h, 1)
    IN  IF ~IsZero(bin1) THEN Scale(h, FDiv(FromInt(2 * RefRate), bin1)) ELSE h

\* bin1 = h.get_bin_content(1); if bin1 != 0.: h.Scale(40000000. / bin1)
Rescale(h) ==
    LET bin1 == get_bin_content(h, 1)
    IN  IF ~IsZero(bin1) THEN Scale(h, FDiv(FromInt(RefRate), bin1)) ELSE h

\* the discrepancy without the test for a zero rate
RateDelta_NoZeroCheck(hw_rate, emu_rate) == FAbsDiff(hw_rate, emu_rate)

\* one entry of rate_delta
RateDelta(hw_rate, emu_rate) ==
    IF IsZero(hw_rate) \/ IsZero(emu_rate)
    THEN FromInt(RefRate)
    ELSE FAbsDiff(hw_rate, emu_rate)

\* the list rate_delta of one threshold: entry i is for h_emu.get_bin_content(i),
\* i in range(h.nbins())
rate_delta(h, h_emu, thresh) ==
    LET hw_rate == get_bin_content(h, thresh)
    IN  [i \in 0..(nbins(h) - 1) |-> RateDelta(hw_rate, get_bin_content(h_emu, i))]

\* list.index(min(list)): the first index of the least entry
IndexOfMin(list) ==
    CHOOSE i \in DOMAIN list :
        /\ \A j \in DOMAIN list : ~FLess(list[j], list[i])
        /\ \A j \in DOMAIN list : j < i => FLess(list[i], list[j])

\* the body of "for thresh in thresholds"
Calibration(h, h_emu, thresh) ==
    LET deltas == rate_delta(h, h_emu, thresh)
    IN  [thresh |-> thresh,
         hw_rate |-> get_bin_content(h, thresh),
         rate_delta |-> deltas,
         emu_threshold |-> IndexOfMin(deltas)]

\* the loop "for histo_name in self._sumTypes + self._jetTypes" from its k-th
\* name on; iterating the None of a missing threshold list raises
RECURSIVE CalibrateFrom(_, _)
CalibrateFrom(k, st) ==
    IF k > Len(AllTypes) THEN st
    ELSE LET histo_name == AllTypes[k]
         IN  IF HasEmu(histo_name) THEN CalibrateFrom(k + 1, st)
             ELSE LET emu == PlusEmu(histo_name)
                      h == Rescale(st.hists[histo_name])
                      h_emu == Rescale(st.hists[emu])
                      hs == [st.hists EXCEPT ![histo_name] = h, ![emu] = h_emu]
                      t == DictGet(thresholds, histo_name)
                      cs == [j \in 1..Len(t.val) |-> Calibration(h, h_emu, t.val[j])]
                  IN  IF t.isNone
                      THEN [st EXCEPT !.hists = hs, !.raised = TRUE]
                      ELSE CalibrateFrom(k + 1,
                             [hists |-> hs,
                              calib |-> [st.calib EXCEPT ![histo_name] = cs],
                              lines |-> Append(st.lines,
                                  [name |-> histo_name,
                                   thresholds |-> t.val,
                                   emu_thresholds |->
                                       [j \in 1..Len(cs) |-> cs[j].emu_threshold]]),
                              raised |-> FALSE])

\* make_plots: the curves of lines 248-253, then the calibration loop. The
\* overlay_with_emu calls only pair plotters for drawing and change nothing
\* that is read afterwards.
MakePlots ==
    /\ pc = "filling"
    /\ \E end \in {CalibrateFrom(1, [hists |-> [n \in Names |-> RateCurve(n)],
                                     calib |-> [n \in HwNames |-> <<>>],
                                     lines |-> <<>>,
                                     raised |-> FALSE])} :
          /\ pc' = IF end.raised THEN "raised" ELSE "done"
          /\ hists' = end.hists
          /\ calib' = end.calib
          /\ output' = [output EXCEPT !.lines = end.lines]
    /\ UNCHANGED <<thresholds, _lumiFilter, _lastRunAndLumi, _processLumi,
                   rates, rate_vs_pileup, fed, admitted, calls, fullCache>>

Next ==
    \/ PrepareForEvents
    \/ \E event \in Events : FillHistograms(event)
    \/ MakePlots

Spec == Init /\ [][Next]_vars

----------------------------------------------------------------------------
(* The gate called on its own: admit(run, lumi) *)

GateInit ==
    /\ pc = "gate"
    /\ \E json \in LumiJsons : Construct(json, [n \in HwNames |-> AllBins])

\* a gate that remembers the verdict of every pair it has looked up
FullGate(run, lumi) ==
    IF ~_lumiFilter.given THEN TRUE
    ELSE IF <<run, lumi>> \in DOMAIN fullCache THEN fullCache[<<run, lumi>>]
    ELSE LuminosityFilter(_lumiFilter, run, lumi)

GateCall(run, lumi) ==
    LET gate == _passesLumiFilter(run, lumi)
        full == FullGate(run, lumi)
    IN  /\ pc = "gate"
        /\ Len(calls) < MaxCalls
        /\ _lastRunAndLumi' = gate.last
        /\ _processLumi' = gate.process
        /\ calls' = Append(calls, [run |-> run, lumi |-> lumi, lookup |-> gate.lookup,
                                   ret |-> gate.ret, full |-> full])
        /\ fullCache' =
             IF _lumiFilter.given
             THEN [p \in DOMAIN fullCache \cup {<<run, lumi>>} |->
                     IF p \in DOMAIN fullCache THEN fullCache[p] ELSE full]
             ELSE fullCache
        /\ UNCHANGED <<pc, thresholds, _lumiFilter, rates, rate_vs_pileup, hists,
                       calib, output, fed, admitted>>

GateNext == \E run \in Runs, lumi \in Lumis : GateCall(run, lumi)

GateSpec == GateInit /\ [][GateNext]_vars

----------------------------------------------------------------------------
(* Properties of the gate, under GateSpec *)

CallPair(i) == <<calls[i].run, calls[i].lumi>>

\* C1: with a luminosity filter configured, a call of _passesLumiFilter makes
\* the external lookup exactly when it is the first call or its (run, lumi)
\* differs from the pair of the call before; a call repeating that pair
\* returns the verdict of the call before. For (1,1),(1,1),(1,2),(1,1) the
\* lookup is made for the 1st, 3rd and 4th calls only.
C1_LookupExactlyOnChange ==
    _lumiFilter.given =>
        /\ \A i \in 1..Len(calls) :
             /\ calls[i].lookup <=> (i = 1 \/ CallPair(i) # CallPair(i - 1))
             /\ ~calls[i].lookup => calls[i].ret = calls[i - 1].ret
        /\ [i \in 1..Len(calls) |-> CallPair(i)] = <<<<1, 1>>, <<1, 1>>, <<1, 2>>, <<1, 1>>>>
             => [i \in 1..Len(calls) |-> calls[i].lookup] = <<TRUE, FALSE, TRUE, TRUE>>

C1_Witness ==
    /\ _lumiFilter.given
    /\ [i \in 1..Len(calls) |-> CallPair(i)] = <<<<1, 1>>, <<1, 1>>, <<1, 2>>, <<1, 1>>>>
    /\ [i \in 1..Len(calls) |-> calls[i].ret] = <<TRUE, TRUE, FALSE, TRUE>>
    /\ [i \in 1..Len(calls) |-> calls[i].lookup] = <<TRUE, FALSE, TRUE, TRUE>>

\* a pair comes back after a different pair: the stream is not locally sorted
Unsorted ==
    \E i, j, k \in 1..Len(calls) :
        i < j /\ j < k /\ CallPair(i) = CallPair(k) /\ CallPair(i) # CallPair(j)

\* some call returned another verdict than the full-mapping gate
Diverged == \E i \in 1..Len(calls) : calls[i].ret # calls[i].full

NumLookups == Cardinality({i \in 1..Len(calls) : calls[i].lookup})

\* C9, as stated: on a stream that is not locally sorted the single-entry
\* gate's verdicts diverge from the full-mapping gate's, and on a sorted
\* stream they agree.
C9_DivergesWhenUnsorted ==
    _lumiFilter.given => (Unsorted <=> Diverged)

\* C9, amended: the verdict being a fixed function of (run, lumi), the
\* single-entry gate returns the full-mapping gate's verdict for every call
\* of every stream; the streams differ in the lookups only: the single-entry
\* gate makes one lookup per distinct pair exactly when the stream is locally
\* sorted, and more when it is not.
C9_SameVerdictMoreLookups ==
    /\ ~Diverged
    /\ _lumiFilter.given =>
         /\ NumLookups >= Cardinality(DOMAIN fullCache)
         /\ (NumLookups = Cardinality(DOMAIN fullCache)) <=> ~Unsorted

C9_Witness ==
    /\ _lumiFilter.given
    /\ Unsorted
    /\ ~Diverged
    /\ \E i, j \in 1..Len(calls) : calls[i].ret /\ ~calls[j].ret
    /\ NumLookups > Cardinality(DOMAIN fullCache)

----------------------------------------------------------------------------
(* Properties of the fill phase, under Spec *)

Built == pc \in {"filling", "done", "raised"}

Plotted == pc \in {"done", "raised"}

\* the verdict of the external lookup for an event's lumi section
Verdict(event) ==
    ~_lumiFilter.given \/ LuminosityFilter(_lumiFilter, event.run, event.lumi)

\* the distinct events fed so far that the external verdict accepts
Accepted == {e \in BagToSet(fed) : Verdict(e)}

RECURSIVE CountedIn(_, _, _)
\* plot with the given events counted in, each with its copies in the bag
CountedIn(name, plot, events) ==
    IF events = {} THEN plot
    ELSE LET e == CHOOSE x \in events : TRUE
             bin == ValueBin(ChannelValue(name, e))
             in == SlicesOf(Pileup(e))
             more == [s \in Slices |->
                        IF s \in in
                        THEN [plot[s] EXCEPT ![bin] = @ + CopiesIn(e, fed)]
                        ELSE plot[s]]
         IN  CountedIn(name, more, events \ {e})

\* C7: the accumulators depend on the multiset of events only, not on their
\* order: every channel's accumulator holds, cell by cell, the number of
\* events of the bag fed so far that the external verdict accepts and that
\* fall in the cell.
C7_OrderIndependent ==
    Built =>
        \A name \in Names :
            /\ rates[name] = CountedIn(name, RatesPlot_build, Accepted)
            /\ rate_vs_pileup[name].fills =
                 BagCardinality([e \in Accepted |-> CopiesIn(e, fed)])

C7_Witness ==
    /\ pc = "filling"
    /\ admitted = 1
    /\ \E e1, e2 \in BagToSet(fed) :
         /\ e1.lumi # e2.lumi
         /\ e1.data # e2.data
         /\ Verdict(e1) /\ ~Verdict(e2)

RECURSIVE Total(_, _)
\* the sum of a histogram's bins from bin b on
Total(hist, b) == IF b > NBins + 1 THEN 0 ELSE hist[b] + Total(hist, b + 1)

\* the cells of the everything slice a step increments by one
Incremented(name) ==
    {b \in Bins : rates'[name][everything][b] = rates[name][everything][b] + 1}

FillStep ==
    /\ admitted' = admitted + 1 =>
         \A name \in Names :
            /\ Cardinality(Incremented(name)) = 1
            /\ \A b \in Bins \ Incremented(name) :
                 rates'[name][everything][b] = rates[name][everything][b]
    /\ admitted' = admitted => rates' = rates
    /\ \A name \in Names, slice \in Slices, b \in Bins :
         rates'[name][slice][b] >= rates[name][slice][b]

\* C8: for each of the ten channels the total of the everything slice is the
\* number of events the gate admitted; an admitted event increments exactly
\* one cell of every channel by one, a rejected event changes no
\* accumulator, and no count decreases.
C8_TotalIsAdmitted ==
    /\ [](Built => \A name \in Names : Total(rates[name][everything], 0) = admitted)
    /\ [][(pc = "filling" /\ fed' # fed) => FillStep]_vars

C8_Witness ==
    /\ pc = "filling"
    /\ admitted = 1
    /\ BagCardinality(fed) = 2
    /\ Cardinality(Names) = 10
    /\ \A name \in Names : Total(rates[name][everything], 0) = 1

----------------------------------------------------------------------------
(* Properties of make_plots, under Spec *)

\* the curve make_plots leaves for the emulated partner of a channel
EmuCurve(name) == hists[PlusEmu(name)]

\* the calibrations make_plots ran: channel and position in its threshold list
Calibrations == {<<n, j>> : n \in HwNames, j \in 1..NBins} \cap
                {c \in HwNames \X (1..NBins) : c[2] \in DOMAIN calib[c[1]]}

\* C2: the bin calibrate returns has the least discrepancy over every bin of
\* the emulated curve, and no bin before it has the same discrepancy.
C2_MinimalOverEveryBin ==
    Plotted =>
        \A c \in Calibrations :
            LET cal == calib[c[1]][c[2]]
                found == cal.rate_delta[cal.emu_threshold]
                Disc(i) == RateDelta(cal.hw_rate, EmuCurve(c[1])[i])
            IN  /\ \A i \in 1..NBins : ~FLess(Disc(i), found)
                /\ \A i \in 1..NBins : i < cal.emu_threshold => FLess(found, Disc(i))

\* C3: when the hardware rate at the threshold bin is 0, every pairing of the
\* scan has the discrepancy 40,000,000, the pairings with an emulated rate
\* of 0 included, and the bin returned is the first one scanned: no bin is
\* preferred for its emulated rate being 0 as well.
C3_ZeroTargetAllMaximal ==
    Plotted =>
        \A c \in Calibrations :
            LET cal == calib[c[1]][c[2]]
            IN  IsZero(cal.hw_rate) =>
                    /\ \A i \in DOMAIN cal.rate_delta :
                         cal.rate_delta[i] = FromInt(RefRate)
                    /\ cal.emu_threshold = 0

C3_Witness ==
    /\ pc = "done"
    /\ \E c \in Calibrations :
         /\ IsZero(calib[c[1]][c[2]].hw_rate)
         /\ \E i, j \in 1..(NBins - 1) :
              IsZero(EmuCurve(c[1])[i]) /\ ~IsZero(EmuCurve(c[1])[j])

\* C10: a scanned bin at which the hardware target and the emulated rate are
\* both non-zero has a discrepancy strictly below 40,000,000; so the bin
\* returned has an emulated rate of 0 only if the target is 0 or every
\* scanned emulated bin has the rate 0.
C10_NonZeroBelowSentinel ==
    Plotted =>
        \A c \in Calibrations :
            LET cal == calib[c[1]][c[2]]
                emu == EmuCurve(c[1])
            IN  /\ \A i \in DOMAIN cal.rate_delta :
                     (~IsZero(cal.hw_rate) /\ ~IsZero(emu[i]))
                         => FLess(cal.rate_delta[i], FromInt(RefRate))
                /\ IsZero(emu[cal.emu_threshold]) =>
                     \/ IsZero(cal.hw_rate)
                     \/ \A i \in DOMAIN cal.rate_delta : IsZero(emu[i])

C10_Witness ==
    /\ pc = "done"
    /\ \E c \in Calibrations :
         LET cal == calib[c[1]][c[2]]
         IN  /\ ~IsZero(cal.hw_rate)
             /\ ~IsZero(EmuCurve(c[1])[cal.emu_threshold])
             /\ cal.rate_delta[cal.emu_threshold] # FromInt(0)
             /\ cal.rate_delta[0] = FromInt(RefRate)

\* the cumulative curve of a channel before any scaling
RawCurve(name) == cumulative_hist(rates[name][everything])

\* C4: after normalise_to_collision_rate and the rescaling of make_plots the
\* first value bin of every channel's curve is exactly 40,000,000 when it was
\* non-zero before, and the curve is the unscaled one when it was zero.
C4_FirstBinIsRefRate ==
    Plotted =>
        \A name \in Names :
            IF IsZero(RawCurve(name)[1])
            THEN hists[name] = RawCurve(name)
            ELSE hists[name][1] = FromInt(RefRate)

C4_Witness ==
    /\ pc = "done"
    /\ admitted = 2
    /\ \A name \in Names :
         /\ RawCurve(name)[1] = FromInt(2)
         /\ hists[name][1] = FromInt(RefRate)

\* C5: the normalised curve of every channel is non-increasing over the
\* value bins, its value at bin i being the count of the events of the
\* everything slice in the bins from i on, scaled by 40,000,000 over the
\* count of all of them.
C5_NonIncreasing ==
    Plotted =>
        \A name \in Names :
            /\ \A i \in 1..(NBins - 1) : ~FLess(hists[name][i], hists[name][i + 1])
            /\ admitted > 0 =>
                 \A i \in 1..NBins :
                    hists[name][i] =
                        Frac(RefRate * SumFrom(rates[name][everything], i), admitted)

C5_Witness ==
    /\ pc = "done"
    /\ \E name \in Names, i, j \in 1..(NBins - 1) :
         /\ FLess(hists[name][i + 1], hists[name][i])
         /\ hists[name][j + 1] = hists[name][j]
         /\ ~IsZero(hists[name][NBins])

\* C6: when a hardware channel has no entry in the threshold configuration,
\* the diagnostic is printed and make_plots finishes, with the thresholds
\* line of every other hardware channel printed.
C6_MissingThresholdsSkipped ==
    (Plotted /\ MissingThresholds # {}) =>
        /\ pc = "done"
        /\ output.errors >= 1
        /\ \A n \in HwNames \ MissingThresholds :
             \E k \in DOMAIN output.lines : output.lines[k].name = n

====
